---- MODULE Spec2Model ----
(***************************************************************************)
(* Model of the tracked reframing engine of video-intelligent-resizer     *)
(* (scripts/batch_reframe_track_yolo.py): crop geometry, EMA smoother,    *)
(* pan-rate limiter and the detect/track loop of reframe_video.           *)
(*                                                                         *)
(* Numbers.  The code computes on Python floats and float32 arrays.  The   *)
(* model computes on exact rationals <<n, d>> (d > 0, lowest terms), so a  *)
(* statement proved here is a statement about the arithmetic the code      *)
(* writes down, not about its last-bit rounding.  math.hypot is exact      *)
(* here: Hypot is defined only where the length is rational, and the       *)
(* inputs are drawn so that it is (TLC stops with an error otherwise).     *)
(* Python's None is the empty tuple <<>>; a point is <<x, y>> and a box    *)
(* is <<x, y, w, h>> of rationals.                                         *)
(***************************************************************************)
EXTENDS Integers, Sequences, FiniteSets

VARIABLES
    pc,                 \* position: reframe_video's, or "call"/"ret" of one function
    fw, fh,             \* frame size of the source
    target_w, target_h, \* target resolution; target_ratio = target_w / target_h
    detect_every,       \* option detect_every
    ema_alpha,          \* Ema.alpha
    pan_cap_px,         \* option pan_cap_px
    override,           \* the caller's override: <<manual_center or None, box or None>>
    manual_center,      \* override["manual_center"] scaled to pixels, or None
    fixed_box,          \* override["box"] scaled to pixels, or None
    frame_idx,          \* frames read so far
    tracker,            \* None, or the live tracker: <<frame it was created on>>
    ema_v,              \* Ema.v
    prev_smooth_center, \* the capped center of the previous frame, or None
    box,                \* this frame's box, or None
    target_center,      \* this frame's raw center
    smooth_center,      \* this frame's smoothed center
    capped_center,      \* this frame's capped center
    crop,               \* this frame's crop window <<x0, y0, cw, ch>> (integers)
    calls,              \* what the last frame invoked: a subset of {"detect","init","update"}
    tracker_before,     \* the value of tracker when the last frame started
    n_detect, n_init, n_update, \* invocation counts over the run
    detect_frames,      \* the frame indices on which the detector was invoked
    steady,             \* so far every detection found a box and every update succeeded
    ema_inputs,         \* the inputs Ema.update has been given, in order
    ema_v_before,       \* Ema.v as the last call of Ema.update found it
    files,              \* the file system: [dst, tmp, aac] -> None or <<kind, frames, state>>
    dst_before,         \* what the destination path held when the run started
    src_audio,          \* the source has an audio track
    n_opens,            \* attempts to open the source
    sink,               \* the cv2.VideoWriter: "none", "open" or "failed"
    detector,           \* the PersonDetector: "none", "ok" or "failed"
    n_written,          \* frames the sink took
    n_rejected,         \* frames the sink did not take
    silent,             \* the file at tmp as _remux_audio received it
    probe,              \* None, or what ffprobe did: <<"ok" or "raises", stdout>>
    audio,              \* what _has_audio returned
    extract, mux,       \* the two ffmpeg steps: "none", "running", "ok" or "failed"
    outcome,            \* of reframe_video: "running", "ok", or the exception raised
    driver,             \* who runs the batch: "_process_job" or "process_dir"
    yolo_reframe,       \* main.py's import of reframe_video succeeded
    fates,              \* item -> "ok" or "fails": what reframe_video does on it
    todo,               \* the items the driver's loops have not reached, in order
    results,            \* job["results"]: <<item, status, reason>> in order
    summary,            \* job["summary"]: <<success, errors, total, processing_errors>>
    outputs,            \* the items whose output file was produced
    batch_error,        \* "" or the exception that left the driver
    phase,              \* job["phase"]
    canceled,           \* cancel_job was accepted while the worker was running
    started_after_cancel, \* the items the worker began after that
    zip_file,           \* results.zip on disk: "absent", "partial" or "complete"
    zip_path,           \* job["zip_path"]: None or <<"results.zip">>
    req_phase,          \* the phase the last get_result read, "none" before any
    response,           \* of the last get_result: "none", "checked", "409", "404", "200"
    served,             \* "none", or the state of the file the 200 response carries
    job_view,           \* None, or <<phase, zip_path>> as the last get_job returned it
    r_boxes,            \* the person boxes of the detector's prediction, in order
    capped_before       \* the capped center of the frame before the last one, or None

io_vars == <<files, dst_before, src_audio, n_opens, sink, detector, n_written,
             n_rejected, silent, probe, audio, extract, mux, outcome>>
zip_vars == <<zip_file, zip_path>>
req_vars == <<req_phase, response, served, job_view>>
batch_vars == <<driver, yolo_reframe, fates, todo, results, summary, outputs, batch_error,
                phase, canceled, started_after_cancel, zip_vars, req_vars>>

vars == <<pc, fw, fh, target_w, target_h, detect_every, ema_alpha, pan_cap_px,
          override, manual_center, fixed_box, frame_idx, tracker, ema_v, prev_smooth_center,
          box, target_center, smooth_center, capped_center, crop, calls,
          tracker_before, n_detect, n_init, n_update, detect_frames, steady,
          ema_inputs, ema_v_before, io_vars, batch_vars, r_boxes, capped_before>>

None == <<>>

\* No run at the file level, no batch.
IdleIO ==
    /\ files = [p \in {"dst", "tmp", "aac"} |-> None]
    /\ dst_before = None /\ src_audio = FALSE /\ n_opens = 0
    /\ sink = "none" /\ detector = "none" /\ n_written = 0 /\ n_rejected = 0
    /\ silent = None /\ probe = None /\ audio = FALSE
    /\ extract = "none" /\ mux = "none" /\ outcome = "running"

IdleBatch ==
    /\ driver = "none" /\ yolo_reframe = TRUE /\ fates = <<>> /\ todo = <<>>
    /\ results = <<>> /\ summary = <<0, 0, 0, 0>> /\ outputs = {}
    /\ batch_error = ""
    /\ phase = "none" /\ canceled = FALSE /\ started_after_cancel = 0
    /\ zip_file = "absent" /\ zip_path = None
    /\ req_phase = "none" /\ response = "none" /\ served = "none" /\ job_view = None

(***************************************************************************)
(* Exact rational arithmetic.                                              *)
(***************************************************************************)
Abs(a) == IF a < 0 THEN -a ELSE a

RECURSIVE GCD(_, _)
GCD(a, b) == IF b = 0 THEN a ELSE GCD(b, a % b)

Rat(n, d) ==
    LET s == IF d < 0 THEN -1 ELSE 1
        g == GCD(Abs(n), Abs(d))
    IN  <<(s * n) \div g, (s * d) \div g>>

I(n) == <<n, 1>>
\* a and b over their least common denominator: <<numerator of a, of b, denominator>>
Common(a, b) ==
    LET g == GCD(a[2], b[2])
    IN  <<a[1] * (b[2] \div g), b[1] * (a[2] \div g), (a[2] \div g) * b[2]>>
RAdd(a, b) == LET c == Common(a, b) IN Rat(c[1] + c[2], c[3])
RSub(a, b) == LET c == Common(a, b) IN Rat(c[1] - c[2], c[3])
RMul(a, b) ==
    LET g == GCD(Abs(a[1]), b[2])
        h == GCD(Abs(b[1]), a[2])
    IN  Rat((a[1] \div g) * (b[1] \div h), (a[2] \div h) * (b[2] \div g))
RDiv(a, b) == RMul(a, Rat(b[2], b[1]))
RLt(a, b) == LET c == Common(a, b) IN c[1] < c[2]
RLe(a, b) == LET c == Common(a, b) IN c[1] <= c[2]
RAbs(a) == <<Abs(a[1]), a[2]>>
RFloor(a) == a[1] \div a[2]
RMax(a, b) == IF RLt(a, b) THEN b ELSE a

\* int() in the place of round(): truncation.
PyRound_truncating(a) == IF a[1] >= 0 THEN a[1] \div a[2] ELSE -((-a[1]) \div a[2])

\* Python's round() on a float: to the nearest integer, a tie to the even one.
PyRound(a) ==
    LET f == RFloor(a)
        twice == 2 * (a[1] - f * a[2])  \* 2 * fractional part, over a[2]
    IN  IF twice < a[2] THEN f
        ELSE IF twice > a[2] THEN f + 1
        ELSE IF f % 2 = 0 THEN f ELSE f + 1

RECURSIVE IsqrtIn(_, _, _)
IsqrtIn(n, lo, hi) ==
    IF lo >= hi THEN lo
    ELSE LET mid == (lo + hi + 1) \div 2
         IN  IF mid * mid <= n THEN IsqrtIn(n, mid, hi) ELSE IsqrtIn(n, lo, mid - 1)

\* The square root of a rational that is a square of a rational.
RSqrt(a) ==
    LET rn == IsqrtIn(a[1], 0, a[1])
        rd == IsqrtIn(a[2], 0, a[2])
    IN  CHOOSE r \in {<<rn, rd>>} : rn * rn = a[1] /\ rd * rd = a[2]

\* math.hypot
Hypot(dx, dy) == RSqrt(RAdd(RMul(dx, dx), RMul(dy, dy)))

(***************************************************************************)
(* Crop geometry.                                                          *)
(***************************************************************************)
Max2(a, b) == IF a >= b THEN a ELSE b
Min2(a, b) == IF a <= b THEN a ELSE b

\* A clamp that forgets its upper limit.
clamp_no_upper(v, lo, hi) == Max2(lo, v)

\* A clamp that forgets its lower limit.
clamp_no_lower(v, lo, hi) == Min2(hi, v)

clamp(v, lo, hi) == Max2(lo, Min2(hi, v))

\* The contain policy: the comparison of the two ratios is inverted.
compute_crop_window_contain(frame_w, frame_h, target_ratio, center) ==
    LET src_ratio == Rat(frame_w, frame_h)
        wide == RLt(src_ratio, target_ratio)
        ch == IF wide THEN frame_h ELSE PyRound(RDiv(I(frame_w), target_ratio))
        cw == IF wide THEN PyRound(RMul(I(frame_h), target_ratio)) ELSE frame_w
        x0 == PyRound(RSub(center[1], Rat(cw, 2)))
        y0 == PyRound(RSub(center[2], Rat(ch, 2)))
    IN  <<clamp(x0, 0, frame_w - cw), clamp(y0, 0, frame_h - ch), cw, ch>>

\* target_ratio is the rational ratio = <<target_w, target_h>> normalised.
compute_crop_window(frame_w, frame_h, target_ratio, center) ==
    LET src_ratio == Rat(frame_w, frame_h)
        wide == RLt(target_ratio, src_ratio)
        ch == IF wide THEN frame_h ELSE PyRound(RDiv(I(frame_w), target_ratio))
        cw == IF wide THEN PyRound(RMul(I(frame_h), target_ratio)) ELSE frame_w
        x0 == PyRound(RSub(center[1], Rat(cw, 2)))
        y0 == PyRound(RSub(center[2], Rat(ch, 2)))
    IN  <<clamp(x0, 0, frame_w - cw), clamp(y0, 0, frame_h - ch), cw, ch>>

(***************************************************************************)
(* Ema.update (alpha, v are the object's fields): returns the new v, which *)
(* is also the value the call returns.                                     *)
(***************************************************************************)
\* The weights exchanged: alpha on the old value.
Ema_update_swapped(alpha, v, x) ==
    IF v = None THEN x
    ELSE LET keep == RSub(I(1), alpha)
         IN  <<RAdd(RMul(keep, x[1]), RMul(alpha, v[1])),
               RAdd(RMul(keep, x[2]), RMul(alpha, v[2]))>>

\* A smoother that starts from 0 instead of from its first input.
Ema_update_from_zero(alpha, v, x) ==
    LET keep == RSub(I(1), alpha)
        old == IF v = None THEN <<I(0), I(0)>> ELSE v
    IN  <<RAdd(RMul(alpha, x[1]), RMul(keep, old[1])),
          RAdd(RMul(alpha, x[2]), RMul(keep, old[2]))>>

Ema_update(alpha, v, x) ==
    IF v = None THEN x
    ELSE LET keep == RSub(I(1), alpha)
         IN  <<RAdd(RMul(alpha, x[1]), RMul(keep, v[1])),
               RAdd(RMul(alpha, x[2]), RMul(keep, v[2]))>>

(***************************************************************************)
(* The pan-rate limiter.                                                   *)
(***************************************************************************)
\* The limiter with the cap disabled only below 0, not at 0.
apply_pan_cap_zero_caps(prev_center, target_center_, pan_cap) ==
    IF prev_center = None THEN target_center_
    ELSE LET dx == RSub(target_center_[1], prev_center[1])
             dy == RSub(target_center_[2], prev_center[2])
             dist == Hypot(dx, dy)
         IN  IF RLe(dist, pan_cap) \/ RLt(pan_cap, I(0)) THEN target_center_
             ELSE LET scale == RDiv(pan_cap, dist)
                  IN  <<RAdd(prev_center[1], RMul(dx, scale)),
                        RAdd(prev_center[2], RMul(dy, scale))>>

\* The limiter as a hard stop: a move over the cap is not made at all.
apply_pan_cap_hard_stop(prev_center, target_center_, pan_cap) ==
    IF prev_center = None THEN target_center_
    ELSE LET dx == RSub(target_center_[1], prev_center[1])
             dy == RSub(target_center_[2], prev_center[2])
             dist == Hypot(dx, dy)
         IN  IF RLe(dist, pan_cap) \/ RLe(pan_cap, I(0)) THEN target_center_
             ELSE prev_center

apply_pan_cap(prev_center, target_center_, pan_cap) ==
    IF prev_center = None THEN target_center_
    ELSE LET dx == RSub(target_center_[1], prev_center[1])
             dy == RSub(target_center_[2], prev_center[2])
             dist == Hypot(dx, dy)
         IN  IF RLe(dist, pan_cap) \/ RLe(pan_cap, I(0)) THEN target_center_
             ELSE LET scale == RDiv(pan_cap, dist)
                  IN  <<RAdd(prev_center[1], RMul(dx, scale)),
                        RAdd(prev_center[2], RMul(dy, scale))>>

(***************************************************************************)
(* The detector: the candidates are the person boxes of one prediction, in *)
(* iteration order; Python's max keeps the first of the largest.           *)
(***************************************************************************)
Area(b) == RMul(b[3], b[4])

RECURSIVE MaxByArea(_, _)
MaxByArea(candidates, best) ==
    IF candidates = <<>> THEN best
    ELSE MaxByArea(Tail(candidates),
                   IF RLt(Area(best), Area(Head(candidates)))
                   THEN Head(candidates) ELSE best)

\* max that keeps the last of the largest candidates
RECURSIVE MaxByArea_last(_, _)
MaxByArea_last(candidates, best) ==
    IF candidates = <<>> THEN best
    ELSE MaxByArea_last(Tail(candidates),
                        IF RLe(Area(best), Area(Head(candidates)))
                        THEN Head(candidates) ELSE best)

detect_biggest_person_last_tie(candidates) ==
    IF candidates = <<>> THEN None
    ELSE MaxByArea_last(Tail(candidates), Head(candidates))

detect_biggest_person(candidates) ==
    IF candidates = <<>> THEN None
    ELSE MaxByArea(Tail(candidates), Head(candidates))

(***************************************************************************)
(* Bounds and input domains of the reframe run.  Every subject position    *)
(* lies on the diagonal of a 4:3 frame, whose direction (4,3) has rational *)
(* length, so the run moves in both axes and every distance math.hypot is  *)
(* asked for is rational.                                                  *)
(***************************************************************************)
MaxFrames == 4
MaxDetectEvery == 3
MaxCandidates == 2

PRESETS == {<<1080, 1920>>, <<1080, 1080>>, <<1920, 1080>>}
FrameSizes == {<<32, 24>>}
DetectEverys == 1..MaxDetectEvery
Alphas == {Rat(1, 2), I(1)}
PanCaps == {I(0), Rat(3, 2)}
\* override: <<"manual_center" entry or None, "box" entry or None>>, normalised 0..1
Overrides == {None, <<Rat(1, 4), Rat(1, 4)>>}
                 \X {None, <<Rat(1, 4), Rat(1, 4), Rat(1, 4), Rat(1, 4)>>}

\* The point k eighths of the diagonal away from the frame center.
DiagPoint(w, h, k) == <<Rat(4 * w + k * w, 8), Rat(4 * h + k * h, 8)>>
BoxAround(c, bw, bh) ==
    <<RSub(c[1], Rat(bw, 2)), RSub(c[2], Rat(bh, 2)), I(bw), I(bh)>>
\* What the detector and the tracker can report on a w x h frame: two boxes
\* of equal area off center and a larger one on the center.
Boxes(w, h) == {BoxAround(DiagPoint(w, h, -1), 2, 2),
                BoxAround(DiagPoint(w, h, 1), 2, 2),
                BoxAround(DiagPoint(w, h, 0), 4, 4)}
CandidateLists(w, h) ==
    UNION {[1..n -> Boxes(w, h)] : n \in 0..MaxCandidates}
TrackerResults(w, h) ==
    {<<FALSE, None>>} \cup {<<TRUE, b>> : b \in Boxes(w, h)}

\* What detect_biggest_person can return on a frame of each size.
DetectResults ==
    [size \in FrameSizes |->
        {detect_biggest_person(c) : c \in CandidateLists(size[1], size[2])}]

(***************************************************************************)
(* reframe_video, one loop iteration at a time.                            *)
(***************************************************************************)
\* The cadence counted from 0: detection on frames D, 2D, ...
UseDetect_from_zero(trk, idx, every) == trk = None \/ idx % Max2(1, every) = 0

\* Detection on the cadence only, also while there is no tracker.
UseDetect_cadence_only(trk, idx, every) == idx % Max2(1, every) = 1

\* use_detect of frame idx
UseDetect(trk, idx, every) == trk = None \/ idx % Max2(1, every) = 1

\* A failed update that leaves the tracker in place.
TrackerUpdate_keeps_tracker(trk, res, done) ==
    IF res[1] THEN <<res[2], trk, done \cup {"update"}>>
    ELSE <<None, trk, done \cup {"update"}>>

\* tracker.update(frame) and what the loop does with its result:
\* <<box, tracker, calls>>
TrackerUpdate(trk, res, done) ==
    IF res[1] THEN <<res[2], trk, done \cup {"update"}>>
    ELSE <<None, None, done \cup {"update"}>>

\* A locator that takes the fixed box only where the detector finds nothing.
Locate_box_as_fallback(fixed, trk, idx, every, found, res) ==
    IF found # None THEN <<found, <<idx>>, {"detect", "init"}>>
    ELSE <<fixed, trk, {"detect"}>>

\* A locator for which an empty detection is a tracker loss.
Locate_empty_detection_drops(fixed, trk, idx, every, found, res) ==
    IF fixed # None THEN <<fixed, trk, {}>>
    ELSE IF UseDetect(trk, idx, every)
         THEN IF found # None THEN <<found, <<idx>>, {"detect", "init"}>>
              ELSE <<None, None, {"detect"}>>
         ELSE IF trk # None THEN TrackerUpdate(trk, res, {})
         ELSE <<None, trk, {}>>

\* The subject locator of frame idx: <<box, tracker, calls>>.  found is what
\* detector.detect_biggest_person would return on the frame, res what
\* tracker.update would.
Locate(fixed, trk, idx, every, found, res) ==
    IF fixed # None THEN <<fixed, trk, {}>>
    ELSE IF UseDetect(trk, idx, every)
         THEN IF found # None THEN <<found, <<idx>>, {"detect", "init"}>>
              ELSE IF trk # None THEN TrackerUpdate(trk, res, {"detect"})
              ELSE <<None, trk, {"detect"}>>
         ELSE IF trk # None THEN TrackerUpdate(trk, res, {})
         ELSE <<None, trk, {}>>

\* A raw center that falls back to the origin, not to the frame's center.
RawCenter_origin(b, manual, w, h) ==
    IF b # None THEN <<RAdd(b[1], RDiv(b[3], I(2))), RAdd(b[2], RDiv(b[4], I(2)))>>
    ELSE IF manual # None THEN manual
    ELSE <<I(0), I(0)>>

\* The raw center of a frame.
RawCenter(b, manual, w, h) ==
    IF b # None THEN <<RAdd(b[1], RDiv(b[3], I(2))), RAdd(b[2], RDiv(b[4], I(2)))>>
    ELSE IF manual # None THEN manual
    ELSE <<Rat(w, 2), Rat(h, 2)>>

\* A pipeline without the limiter.
CappedCenter_uncapped(prev, smooth, pan_cap) == smooth

\* The capped center of a frame, given the previous frame's.
CappedCenter(prev, smooth, pan_cap) ==
    IF prev = None THEN smooth ELSE apply_pan_cap(prev, smooth, pan_cap)

\* Lines 180-184: the override's entries in pixels.
ScaledCenter(c, w, h) == <<RMul(c[1], I(w)), RMul(c[2], I(h))>>
ScaledBox(b, w, h) ==
    <<RMul(b[1], I(w)), RMul(b[2], I(h)), RMul(b[3], I(w)), RMul(b[4], I(h))>>

Count(n, name, done) == IF name \in done THEN n + 1 ELSE n

Idle ==
    /\ fw = 0 /\ fh = 0 /\ target_w = 0 /\ target_h = 0
    /\ detect_every = 0 /\ ema_alpha = I(0) /\ pan_cap_px = I(0)
    /\ override = <<None, None>> /\ manual_center = None /\ fixed_box = None
    /\ frame_idx = 0 /\ tracker = None /\ ema_v = None
    /\ prev_smooth_center = None
    /\ box = None /\ target_center = None /\ smooth_center = None
    /\ capped_center = None /\ crop = None
    /\ calls = {} /\ tracker_before = None
    /\ n_detect = 0 /\ n_init = 0 /\ n_update = 0
    /\ detect_frames = {} /\ steady = TRUE
    /\ ema_inputs = <<>> /\ ema_v_before = None
    /\ r_boxes = <<>> /\ capped_before = None

Init == pc = "start" /\ Idle /\ IdleIO /\ IdleBatch

\* Lines 155-184: the source opens, the options and the override are taken.
Setup ==
    /\ pc = "start"
    /\ \E size \in FrameSizes, target \in PRESETS, every \in DetectEverys,
          alpha \in Alphas, pan_cap \in PanCaps, ov \in Overrides :
          /\ fw' = size[1] /\ fh' = size[2]
          /\ target_w' = target[1] /\ target_h' = target[2]
          /\ detect_every' = every
          /\ ema_alpha' = alpha
          /\ pan_cap_px' = pan_cap
          /\ override' = ov
          /\ manual_center' = IF ov[1] # None THEN ScaledCenter(ov[1], size[1], size[2])
                              ELSE None
          /\ fixed_box' = IF ov[2] # None THEN ScaledBox(ov[2], size[1], size[2])
                          ELSE None
    /\ pc' = "loop"
    /\ UNCHANGED <<io_vars, batch_vars, r_boxes, capped_before,
                   frame_idx, tracker, ema_v, prev_smooth_center, box, target_center,
                   smooth_center, capped_center, crop, calls, tracker_before,
                   n_detect, n_init, n_update, detect_frames, steady, ema_inputs,
                   ema_v_before>>

\* Lines 192-236: one frame is read, located, smoothed, capped, cropped, written.
ProcessFrame ==
    /\ pc = "loop"
    /\ frame_idx < MaxFrames
    /\ \E loc \in {Locate(fixed_box, tracker, frame_idx + 1, detect_every,
                          found, res) :
                       found \in DetectResults[<<fw, fh>>],
                       res \in TrackerResults(fw, fh)} :
              /\ box' = loc[1]
              /\ tracker' = loc[2]
              /\ calls' = loc[3]
    /\ frame_idx' = frame_idx + 1
    /\ tracker_before' = tracker
    /\ n_detect' = Count(n_detect, "detect", calls')
    /\ n_init' = Count(n_init, "init", calls')
    /\ n_update' = Count(n_update, "update", calls')
    /\ detect_frames' = IF "detect" \in calls'
                        THEN detect_frames \cup {frame_idx'} ELSE detect_frames
    /\ steady' = (/\ steady
                  /\ "detect" \in calls' => "init" \in calls'
                  /\ "update" \in calls' => box' # None)
    /\ target_center' = RawCenter(box', manual_center, fw, fh)
    /\ ema_inputs' = Append(ema_inputs, target_center')
    /\ ema_v_before' = ema_v
    /\ ema_v' = Ema_update(ema_alpha, ema_v, target_center')
    /\ smooth_center' = ema_v'
    /\ capped_center' = CappedCenter(prev_smooth_center, smooth_center', pan_cap_px)
    /\ prev_smooth_center' = capped_center'
    /\ crop' = compute_crop_window(fw, fh, Rat(target_w, target_h), capped_center')
    /\ capped_before' = capped_center
    /\ UNCHANGED <<io_vars, batch_vars, r_boxes, pc, fw, fh, target_w, target_h,
                   detect_every, ema_alpha, pan_cap_px, override, manual_center, fixed_box>>

\* Lines 192-193, 238: cap.read() reports the end of the source.
EndOfSource ==
    /\ pc = "loop"
    /\ pc' = "done"
    /\ UNCHANGED <<io_vars, batch_vars, r_boxes, capped_before,
                   fw, fh, target_w, target_h, detect_every, ema_alpha, pan_cap_px,
                   override, manual_center, fixed_box, frame_idx, tracker, ema_v,
                   prev_smooth_center, box, target_center, smooth_center,
                   capped_center, crop, calls, tracker_before, n_detect, n_init,
                   n_update, detect_frames, steady, ema_inputs, ema_v_before>>

Next == Setup \/ ProcessFrame \/ EndOfSource

Spec == Init /\ [][Next]_vars

(***************************************************************************)
(* _compute_crop_window on its own: every small frame, every small target  *)
(* and the presets, centers inside and outside the frame.                  *)
(***************************************************************************)
MaxDim == 6
MaxTarget == 4

CropTargets == PRESETS \cup ((1..MaxTarget) \X (1..MaxTarget))
CropCoords == {Rat(k, 2) : k \in -2..(MaxDim + 2)}

InitCrop ==
    /\ pc = "call"
    /\ IdleIO /\ IdleBatch
    /\ r_boxes = <<>> /\ capped_before = None
    /\ fw \in 1..MaxDim /\ fh \in 1..MaxDim
    /\ \E t \in CropTargets : target_w = t[1] /\ target_h = t[2]
    /\ capped_center \in CropCoords \X CropCoords
    /\ detect_every = 0 /\ ema_alpha = I(0) /\ pan_cap_px = I(0)
    /\ override = <<None, None>> /\ manual_center = None /\ fixed_box = None
    /\ frame_idx = 0 /\ tracker = None /\ ema_v = None
    /\ prev_smooth_center = None
    /\ box = None /\ target_center = None /\ smooth_center = None
    /\ crop = None
    /\ calls = {} /\ tracker_before = None
    /\ n_detect = 0 /\ n_init = 0 /\ n_update = 0
    /\ detect_frames = {} /\ steady = TRUE
    /\ ema_inputs = <<>> /\ ema_v_before = None

CropCall ==
    /\ pc = "call"
    /\ pc' = "ret"
    /\ crop' = compute_crop_window(fw, fh, Rat(target_w, target_h), capped_center)
    /\ UNCHANGED <<io_vars, batch_vars, r_boxes, capped_before,
                   fw, fh, target_w, target_h, detect_every, ema_alpha, pan_cap_px,
                   override, manual_center, fixed_box, frame_idx, tracker, ema_v,
                   prev_smooth_center, box, target_center, smooth_center,
                   capped_center, calls, tracker_before, n_detect, n_init,
                   n_update, detect_frames, steady, ema_inputs, ema_v_before>>

SpecCrop == InitCrop /\ [][CropCall]_vars

(***************************************************************************)
(* _apply_pan_cap on its own: prev absent or present, moves along the axes *)
(* and along Pythagorean directions, caps <= 0, below, at and above the    *)
(* length of the move.                                                     *)
(***************************************************************************)
MaxPanScale == 2

PanDirections == {<<0, 0>>, <<1, 0>>, <<0, -1>>, <<3, 4>>, <<-4, 3>>, <<5, -12>>,
                  <<-8, -6>>}
PanMoves == {<<Rat(d[1] * k, 2), Rat(d[2] * k, 2)>> :
                d \in PanDirections, k \in 1..(2 * MaxPanScale)}
PanOrigins == {<<I(0), I(0)>>, <<I(10), I(7)>>, <<Rat(1, 2), Rat(-3, 2)>>}
PanCapValues == {I(-1), I(0), Rat(1, 2), I(1), Rat(5, 2), I(5), I(13), I(30)}

InitPan ==
    /\ pc = "call"
    /\ IdleIO /\ IdleBatch
    /\ r_boxes = <<>> /\ capped_before = None
    /\ pan_cap_px \in PanCapValues
    /\ \E o \in PanOrigins, m \in PanMoves :
          /\ prev_smooth_center \in {None, o}
          /\ smooth_center = <<RAdd(o[1], m[1]), RAdd(o[2], m[2])>>
    /\ fw = 0 /\ fh = 0 /\ target_w = 0 /\ target_h = 0
    /\ detect_every = 0 /\ ema_alpha = I(0)
    /\ override = <<None, None>> /\ manual_center = None /\ fixed_box = None
    /\ frame_idx = 0 /\ tracker = None /\ ema_v = None
    /\ box = None /\ target_center = None
    /\ capped_center = None /\ crop = None
    /\ calls = {} /\ tracker_before = None
    /\ n_detect = 0 /\ n_init = 0 /\ n_update = 0
    /\ detect_frames = {} /\ steady = TRUE
    /\ ema_inputs = <<>> /\ ema_v_before = None

PanCall ==
    /\ pc = "call"
    /\ pc' = "ret"
    /\ capped_center' = apply_pan_cap(prev_smooth_center, smooth_center, pan_cap_px)
    /\ UNCHANGED <<io_vars, batch_vars, r_boxes, capped_before,
                   fw, fh, target_w, target_h, detect_every, ema_alpha, pan_cap_px,
                   override, manual_center, fixed_box, frame_idx, tracker, ema_v,
                   prev_smooth_center, box, target_center, smooth_center,
                   crop, calls, tracker_before, n_detect, n_init,
                   n_update, detect_frames, steady, ema_inputs, ema_v_before>>

SpecPan == InitPan /\ [][PanCall]_vars

(***************************************************************************)
(* One Ema object fed a sequence of points.                                *)
(***************************************************************************)
MaxEmaCalls == 4

EmaAlphas == {Rat(1, 4), Rat(1, 2), Rat(3, 4), I(1)}
EmaPoints == {<<I(0), I(0)>>, <<I(4), I(0)>>, <<I(6), Rat(5, 2)>>}

InitEma ==
    /\ pc = "ema"
    /\ IdleIO /\ IdleBatch
    /\ r_boxes = <<>> /\ capped_before = None
    /\ ema_alpha \in EmaAlphas
    /\ ema_v = None /\ ema_v_before = None /\ ema_inputs = <<>>
    /\ target_center = None /\ smooth_center = None
    /\ fw = 0 /\ fh = 0 /\ target_w = 0 /\ target_h = 0
    /\ detect_every = 0 /\ pan_cap_px = I(0)
    /\ override = <<None, None>> /\ manual_center = None /\ fixed_box = None
    /\ frame_idx = 0 /\ tracker = None
    /\ prev_smooth_center = None
    /\ box = None
    /\ capped_center = None /\ crop = None
    /\ calls = {} /\ tracker_before = None
    /\ n_detect = 0 /\ n_init = 0 /\ n_update = 0
    /\ detect_frames = {} /\ steady = TRUE

EmaCall ==
    /\ pc = "ema"
    /\ Len(ema_inputs) < MaxEmaCalls
    /\ \E x \in EmaPoints :
          /\ target_center' = x
          /\ ema_inputs' = Append(ema_inputs, x)
    /\ ema_v_before' = ema_v
    /\ ema_v' = Ema_update(ema_alpha, ema_v, target_center')
    /\ smooth_center' = ema_v'
    /\ UNCHANGED <<io_vars, batch_vars, r_boxes, capped_before,
                   pc, fw, fh, target_w, target_h, detect_every, ema_alpha, pan_cap_px,
                   override, manual_center, fixed_box, frame_idx, tracker,
                   prev_smooth_center, box, capped_center,
                   crop, calls, tracker_before, n_detect, n_init,
                   n_update, detect_frames, steady>>

SpecEma == InitEma /\ [][EmaCall]_vars

(***************************************************************************)
(* reframe_video as the file system sees it: the source, the VideoWriter   *)
(* on the temporary path, the detector, the frame loop and _remux_audio,   *)
(* one action per system call or subprocess.  A file is None (absent) or   *)
(* <<kind, frames, state>>: kind "old" (there before the run), "silent",   *)
(* "muxed" or "audio"; frames is the number of frames it holds; state is   *)
(* "partial" while it is being written and "complete" once closed.         *)
(***************************************************************************)
MaxSourceFrames == 2

File(kind, frames, state) == <<kind, frames, state>>
FileState(f) == IF f = None THEN "absent" ELSE f[3]
OldFile == File("old", 1, "complete")
pipe_vars == <<fw, fh, target_w, target_h, detect_every, ema_alpha, pan_cap_px,
               override, manual_center, fixed_box, tracker, ema_v,
               prev_smooth_center, box, target_center, smooth_center,
               capped_center, crop, calls, tracker_before, n_detect, n_init,
               n_update, detect_frames, steady, ema_inputs, ema_v_before,
               r_boxes, capped_before>>

\* str.strip on a text of characters "ws" (white space) and "ch" (any other)
RECURSIVE LStrip(_)
LStrip(s) == IF s # <<>> /\ Head(s) = "ws" THEN LStrip(Tail(s)) ELSE s
RECURSIVE RStrip(_)
RStrip(s) ==
    IF s # <<>> /\ s[Len(s)] = "ws" THEN RStrip(SubSeq(s, 1, Len(s) - 1)) ELSE s
Strip(s) == RStrip(LStrip(s))

\* _has_audio without the strip: a blank line counts as a stream.
has_audio_unstripped(r) == IF r[1] = "raises" THEN FALSE ELSE r[2] # <<>>

\* _has_audio on what the ffprobe subprocess did
has_audio(r) == IF r[1] = "raises" THEN FALSE ELSE Strip(r[2]) # <<>>

\* What ffprobe can do on a source: it cannot be run, it prints nothing or a
\* blank line (no audio stream, or it cannot read the source), or one line
\* per audio stream.
ProbeResults(has_track) ==
    {<<"raises", <<>>>>, <<"ok", <<>>>>, <<"ok", <<"ws">>>>}
        \cup (IF has_track THEN {<<"ok", <<"ch", "ws">>>>, <<"ok", <<"ch", "ws", "ch", "ws">>>>}
              ELSE {})

InitFiles ==
    /\ pc = "open"
    /\ Idle /\ IdleBatch
    /\ dst_before \in {None, OldFile}
    /\ files = [p \in {"dst", "tmp", "aac"} |-> IF p = "dst" THEN dst_before ELSE None]
    /\ src_audio \in BOOLEAN
    /\ n_opens = 0 /\ sink = "none" /\ detector = "none"
    /\ n_written = 0 /\ n_rejected = 0
    /\ silent = None /\ probe = None /\ audio = FALSE
    /\ extract = "none" /\ mux = "none" /\ outcome = "running"

\* The VideoWriter is created before the source is checked.
OpenSource_writer_first ==
    /\ pc = "open"
    /\ n_opens' = n_opens + 1
    /\ files' = [files EXCEPT !["tmp"] = File("silent", 0, "partial")]
    /\ \E opened \in BOOLEAN :
          IF opened THEN pc' = "writer" /\ outcome' = outcome
          ELSE pc' = "raised" /\ outcome' = "RuntimeError"
    /\ UNCHANGED <<frame_idx, pipe_vars, batch_vars, dst_before, src_audio, sink,
                   detector, n_written, n_rejected, silent, probe, audio, extract, mux>>

\* Lines 155-157: cv2.VideoCapture(src); RuntimeError if it is not opened.
OpenSource ==
    /\ pc = "open"
    /\ n_opens' = n_opens + 1
    /\ \E opened \in BOOLEAN :
          IF opened THEN pc' = "writer" /\ outcome' = outcome
          ELSE pc' = "raised" /\ outcome' = "RuntimeError"
    /\ UNCHANGED <<frame_idx, pipe_vars, batch_vars, files, dst_before, src_audio, sink,
                   detector, n_written, n_rejected, silent, probe, audio, extract, mux>>

\* Lines 164-166: cv2.VideoWriter on tmp; whether it opened is never asked.
OpenSink ==
    /\ pc = "writer"
    /\ \E opened \in BOOLEAN :
          IF opened
          THEN /\ sink' = "open"
               /\ files' = [files EXCEPT !["tmp"] = File("silent", 0, "partial")]
          ELSE /\ sink' = "failed"
               /\ files' = files
    /\ pc' = "detector"
    /\ UNCHANGED <<frame_idx, pipe_vars, batch_vars, dst_before, src_audio, n_opens,
                   detector, n_written, n_rejected, silent, probe, audio, extract, mux,
                   outcome>>

\* A detector that cannot be constructed is left absent and the run goes on.
ConstructDetector_degrading ==
    /\ pc = "detector"
    /\ \E built \in BOOLEAN : detector' = IF built THEN "ok" ELSE "failed"
    /\ pc' = "read"
    /\ UNCHANGED <<frame_idx, pipe_vars, batch_vars, files, dst_before, src_audio,
                   n_opens, sink, n_written, n_rejected, silent, probe, audio, extract,
                   mux, outcome>>

\* Line 168: PersonDetector(...); an exception of YOLO(model_name) leaves
\* reframe_video.
ConstructDetector ==
    /\ pc = "detector"
    /\ \E built \in BOOLEAN :
          IF built THEN detector' = "ok" /\ pc' = "read" /\ outcome' = outcome
          ELSE detector' = "failed" /\ pc' = "raised" /\ outcome' = "DetectorError"
    /\ UNCHANGED <<frame_idx, pipe_vars, batch_vars, files, dst_before, src_audio,
                   n_opens, sink, n_written, n_rejected, silent, probe, audio, extract,
                   mux>>

\* Lines 191-236: one frame is read, cropped and handed to out.write, whose
\* result is not looked at; a writer that never opened takes nothing.
ReadFrame ==
    /\ pc = "read"
    /\ frame_idx < MaxSourceFrames
    /\ frame_idx' = frame_idx + 1
    /\ \E accepted \in (IF sink = "open" THEN BOOLEAN ELSE {FALSE}) :
          IF accepted
          THEN /\ n_written' = n_written + 1
               /\ n_rejected' = n_rejected
               /\ files' = [files EXCEPT !["tmp"] =
                               File("silent", files["tmp"][2] + 1, "partial")]
          ELSE /\ n_written' = n_written
               /\ n_rejected' = n_rejected + 1
               /\ files' = files
    /\ UNCHANGED <<pc, pipe_vars, batch_vars, dst_before, src_audio, n_opens, sink,
                   detector, silent, probe, audio, extract, mux, outcome>>

\* Lines 192-193 and 238-239: the source is exhausted, the writer is released.
Release ==
    /\ pc = "read"
    /\ files' = IF sink = "open"
                THEN [files EXCEPT !["tmp"] = File("silent", files["tmp"][2], "complete")]
                ELSE files
    /\ pc' = "unlink"
    /\ UNCHANGED <<frame_idx, pipe_vars, batch_vars, dst_before, src_audio, n_opens,
                   sink, detector, n_written, n_rejected, silent, probe, audio, extract,
                   mux, outcome>>

\* Lines 76-77 of _remux_audio: a file at out_path is removed.
RemuxUnlink ==
    /\ pc = "unlink"
    /\ silent' = files["tmp"]
    /\ files' = [files EXCEPT !["dst"] = None]
    /\ pc' = "probe"
    /\ UNCHANGED <<frame_idx, pipe_vars, batch_vars, dst_before, src_audio, n_opens,
                   sink, detector, n_written, n_rejected, probe, audio, extract, mux,
                   outcome>>

\* Line 78 and _has_audio (64-73): ffprobe on the source.
Probe ==
    /\ pc = "probe"
    /\ \E r \in ProbeResults(src_audio) :
          /\ probe' = r
          /\ audio' = has_audio(r)
    /\ pc' = IF audio' THEN "extract" ELSE "replace"
    /\ UNCHANGED <<frame_idx, pipe_vars, batch_vars, files, dst_before, src_audio,
                   n_opens, sink, detector, n_written, n_rejected, silent, extract, mux,
                   outcome>>

\* Lines 79-85: ffmpeg extracts the audio to the .m4a file (check=True).
ExtractAudio ==
    /\ pc = "extract"
    /\ \E done \in BOOLEAN, left \in {None, File("audio", 0, "partial")} :
          IF done
          THEN /\ extract' = "ok" /\ pc' = "mux"
               /\ files' = [files EXCEPT !["aac"] = File("audio", 0, "complete")]
          ELSE /\ extract' = "failed" /\ pc' = "fallback"
               /\ files' = [files EXCEPT !["aac"] = left]
    /\ UNCHANGED <<frame_idx, pipe_vars, batch_vars, dst_before, src_audio, n_opens,
                   sink, detector, n_written, n_rejected, silent, probe, audio, mux,
                   outcome>>

\* Lines 86-91: ffmpeg starts muxing tmp and the .m4a file into out_path
\* itself; without its input it fails at once.
MuxStart ==
    /\ pc = "mux"
    /\ IF files["tmp"] = None
       THEN mux' = "failed" /\ pc' = "fallback" /\ files' = files
       ELSE /\ mux' = "running" /\ pc' = "muxing"
            /\ files' = [files EXCEPT !["dst"] = File("muxed", 0, "partial")]
    /\ UNCHANGED <<frame_idx, pipe_vars, batch_vars, dst_before, src_audio, n_opens,
                   sink, detector, n_written, n_rejected, silent, probe, audio, extract,
                   outcome>>

\* Lines 86-91: the muxing ffmpeg exits; on a failure what it wrote stays.
MuxEnd ==
    /\ pc = "muxing"
    /\ \E done \in BOOLEAN :
          IF done
          THEN /\ mux' = "ok" /\ pc' = "finally"
               /\ files' = [files EXCEPT !["dst"] =
                               File("muxed", files["tmp"][2], "complete")]
          ELSE /\ mux' = "failed" /\ pc' = "fallback"
               /\ files' = files
    /\ UNCHANGED <<frame_idx, pipe_vars, batch_vars, dst_before, src_audio, n_opens,
                   sink, detector, n_written, n_rejected, silent, probe, audio, extract,
                   outcome>>

\* Lines 92-93: except Exception: video_no_audio.replace(out_path), which
\* raises FileNotFoundError when tmp does not exist.
Fallback ==
    /\ pc = "fallback"
    /\ IF files["tmp"] # None
       THEN /\ files' = [files EXCEPT !["dst"] = files["tmp"], !["tmp"] = None]
            /\ outcome' = outcome
       ELSE /\ files' = files
            /\ outcome' = "FileNotFoundError"
    /\ pc' = "finally"
    /\ UNCHANGED <<frame_idx, pipe_vars, batch_vars, dst_before, src_audio, n_opens,
                   sink, detector, n_written, n_rejected, silent, probe, audio, extract,
                   mux>>

\* A finally clause that removes tmp and leaves the .m4a file.
Finally_keeps_audio ==
    /\ pc = "finally"
    /\ files' = [files EXCEPT !["tmp"] = None]
    /\ IF outcome = "running"
       THEN outcome' = "ok" /\ pc' = "done"
       ELSE outcome' = outcome /\ pc' = "raised"
    /\ UNCHANGED <<frame_idx, pipe_vars, batch_vars, dst_before, src_audio, n_opens,
                   sink, detector, n_written, n_rejected, silent, probe, audio, extract,
                   mux>>

\* Lines 94-98: finally, the .m4a file and tmp are removed (both unlinks are
\* taken to succeed on files this run created); _remux_audio returns, or the
\* exception of the handler goes on to the caller.
Finally ==
    /\ pc = "finally"
    /\ files' = [files EXCEPT !["aac"] = None, !["tmp"] = None]
    /\ IF outcome = "running"
       THEN outcome' = "ok" /\ pc' = "done"
       ELSE outcome' = outcome /\ pc' = "raised"
    /\ UNCHANGED <<frame_idx, pipe_vars, batch_vars, dst_before, src_audio, n_opens,
                   sink, detector, n_written, n_rejected, silent, probe, audio, extract,
                   mux>>

\* Lines 99-100: no audio, video_no_audio.replace(out_path).
Replace ==
    /\ pc = "replace"
    /\ IF files["tmp"] # None
       THEN /\ files' = [files EXCEPT !["dst"] = files["tmp"], !["tmp"] = None]
            /\ outcome' = "ok" /\ pc' = "done"
       ELSE /\ files' = files
            /\ outcome' = "FileNotFoundError" /\ pc' = "raised"
    /\ UNCHANGED <<frame_idx, pipe_vars, batch_vars, dst_before, src_audio, n_opens,
                   sink, detector, n_written, n_rejected, silent, probe, audio, extract,
                   mux>>

NextFiles ==
    \/ OpenSource \/ OpenSink \/ ConstructDetector \/ ReadFrame \/ Release
    \/ RemuxUnlink \/ Probe \/ ExtractAudio \/ MuxStart \/ MuxEnd
    \/ Fallback \/ Finally \/ Replace

SpecFiles == InitFiles /\ [][NextFiles]_vars

(***************************************************************************)
(* A batch of videos and ratios under its two drivers: the job worker      *)
(* _process_job of api/main.py and process_dir under the script's main     *)
(* loop.  An item is <<video, ratio>>; what reframe_video does on it is    *)
(* the item's own fate, fixed when the batch starts.                       *)
(***************************************************************************)
MaxVideos == 2

Videos == 1..MaxVideos
JobRatios == <<"9x16", "1x1">>
Items == Videos \X {JobRatios[i] : i \in DOMAIN JobRatios}

RECURSIVE Flatten(_)
Flatten(ss) == IF ss = <<>> THEN <<>> ELSE Head(ss) \o Flatten(Tail(ss))

\* The order of the loops: _process_job goes file by file and ratio by ratio
\* inside; the script calls process_dir ratio by ratio, each over the files.
Order(d) ==
    IF d = "_process_job"
    THEN Flatten([v \in Videos |-> [i \in DOMAIN JobRatios |-> <<v, JobRatios[i]>>]])
    ELSE Flatten([i \in DOMAIN JobRatios |-> [v \in Videos |-> <<v, JobRatios[i]>>]])

\* _push_result: the item is appended and the counters are updated
push_result(res, s, item, status, reason) ==
    <<Append(res, <<item, status, reason>>),
      IF status = "ok" THEN <<s[1] + 1, s[2], s[3] + 1, s[4]>>
      ELSE <<s[1], s[2] + 1, s[3] + 1, s[4] + 1>>>>

\* create_job 441-475 for a job (phase "queued", zip_path None, the worker
\* thread started), or the script about to call process_dir.
InitBatch ==
    /\ Idle /\ IdleIO
    /\ driver \in {"_process_job", "process_dir"}
    /\ pc = (IF driver = "_process_job" THEN "queued" ELSE "batch")
    /\ yolo_reframe \in (IF driver = "_process_job" THEN BOOLEAN ELSE {TRUE})
    /\ fates \in [Items -> {"ok", "raises"}]
    /\ todo = Order(driver)
    /\ results = <<>> /\ summary = <<0, 0, 0, 0>> /\ outputs = {}
    /\ batch_error = ""
    /\ phase = (IF driver = "_process_job" THEN "queued" ELSE "none")
    /\ canceled = FALSE /\ started_after_cancel = 0
    /\ zip_file = "absent" /\ zip_path = None
    /\ req_phase = "none" /\ response = "none" /\ served = "none" /\ job_view = None

\* main.py 339-365: the worker thread starts and sets the phase "downloading".
StartJob ==
    /\ pc = "queued" /\ driver = "_process_job"
    /\ pc' = "downloading"
    /\ phase' = "downloading"
    /\ UNCHANGED <<frame_idx, pipe_vars, io_vars, driver, yolo_reframe, fates, todo,
                   results, summary, outputs, batch_error, canceled,
                   started_after_cancel, zip_vars, req_vars>>

\* main.py 367-386: the downloads.  With no file downloaded the worker raises
\* RuntimeError into its outer handler (437-438), which sets the phase
\* "error"; otherwise the phase becomes "processing".
Download ==
    /\ pc = "downloading" /\ driver = "_process_job"
    /\ \E any \in BOOLEAN :
          IF any
          THEN pc' = "batch" /\ phase' = "processing" /\ batch_error' = batch_error
          ELSE /\ pc' = "job_error" /\ phase' = "error"
               /\ batch_error' = "No files were downloaded."
    /\ UNCHANGED <<frame_idx, pipe_vars, io_vars, driver, yolo_reframe, fates, todo,
                   results, summary, outputs, canceled, started_after_cancel,
                   zip_vars, req_vars>>

\* main.py 387-429: one (file, ratio) of _process_job, inside its try/except.
ProcessItem ==
    /\ pc = "batch" /\ driver = "_process_job" /\ todo # <<>>
    /\ LET item == Head(todo)
           pushed ==
               IF ~yolo_reframe
               THEN push_result(results, summary, item, "error",
                                "YOLO is not available (import failed).")
               ELSE IF fates[item] = "ok"
               THEN push_result(results, summary, item, "ok", "")
               ELSE push_result(results, summary, item, "error",
                                "No se pudo abrir el video")
       IN  /\ results' = pushed[1]
           /\ summary' = pushed[2]
           /\ outputs' = IF yolo_reframe /\ fates[item] = "ok"
                         THEN outputs \cup {item} ELSE outputs
    /\ todo' = Tail(todo)
    /\ started_after_cancel' = IF canceled THEN started_after_cancel + 1
                               ELSE started_after_cancel
    /\ UNCHANGED <<pc, frame_idx, pipe_vars, io_vars, driver, yolo_reframe, fates,
                   batch_error, phase, canceled, zip_vars, req_vars>>

\* main.py 431-434 and _zip_dir 310-314: the loops are over; the phase is set
\* to "zipping", whatever it was, and ZipFile opens results.zip for writing.
StartZip ==
    /\ pc = "batch" /\ driver = "_process_job" /\ todo = <<>>
    /\ pc' = "zipping"
    /\ phase' = "zipping"
    /\ zip_file' = "partial"
    /\ UNCHANGED <<frame_idx, pipe_vars, io_vars, driver, yolo_reframe, fates, todo,
                   results, summary, outputs, batch_error, canceled,
                   started_after_cancel, zip_path, req_vars>>

\* main.py 434-438: _zip_dir returns with the archive closed and one
\* job.update sets the phase "done" and zip_path, whatever the phase was; or
\* _zip_dir raises, what it wrote stays, and the outer handler sets the phase
\* "error".
FinishJob ==
    /\ pc = "zipping" /\ driver = "_process_job"
    /\ \E written \in BOOLEAN :
          IF written
          THEN /\ zip_file' = "complete" /\ zip_path' = <<"results.zip">>
               /\ pc' = "batch_done" /\ phase' = "done"
               /\ batch_error' = batch_error
          ELSE /\ zip_file' = zip_file /\ zip_path' = zip_path
               /\ pc' = "job_error" /\ phase' = "error"
               /\ batch_error' = "zip"
    /\ UNCHANGED <<frame_idx, pipe_vars, io_vars, driver, yolo_reframe, fates, todo,
                   results, summary, outputs, canceled, started_after_cancel,
                   req_vars>>

\* main.py 502-508: cancel_job, from a request thread, at any time of the
\* job; it only writes the phase.
cancel_job ==
    /\ driver = "_process_job"
    /\ phase' = "canceled"
    /\ canceled' = (canceled \/ pc \in {"queued", "downloading", "batch", "zipping"})
    /\ UNCHANGED <<pc, frame_idx, pipe_vars, io_vars, driver, yolo_reframe, fates, todo,
                   results, summary, outputs, batch_error, started_after_cancel,
                   zip_vars, req_vars>>

\* main.py 477-488: get_job returns the job's fields as they are.
get_job ==
    /\ driver = "_process_job"
    /\ job_view' = <<phase, zip_path>>
    /\ UNCHANGED <<pc, frame_idx, pipe_vars, io_vars, driver, yolo_reframe, fates, todo,
                   results, summary, outputs, batch_error, phase, canceled,
                   started_after_cancel, zip_vars, req_phase, response, served>>

\* A get_result that tests zip_path only, not the phase.
get_result_any_phase ==
    /\ driver = "_process_job" /\ response # "checked"
    /\ req_phase' = phase
    /\ response' = IF zip_path = None THEN "409" ELSE "checked"
    /\ served' = "none"
    /\ UNCHANGED <<pc, frame_idx, pipe_vars, io_vars, driver, yolo_reframe, fates, todo,
                   results, summary, outputs, batch_error, phase, canceled,
                   started_after_cancel, zip_vars, job_view>>

\* main.py 490-495: get_result, from a request thread, reads the phase and
\* zip_path; 409 unless the phase is "done" and zip_path is set.
get_result ==
    /\ driver = "_process_job" /\ response # "checked"
    /\ req_phase' = phase
    /\ response' = IF phase # "done" \/ zip_path = None THEN "409" ELSE "checked"
    /\ served' = "none"
    /\ UNCHANGED <<pc, frame_idx, pipe_vars, io_vars, driver, yolo_reframe, fates, todo,
                   results, summary, outputs, batch_error, phase, canceled,
                   started_after_cancel, zip_vars, job_view>>

\* main.py 496-500: the request that passed the test looks the file up; 404
\* when it does not exist, otherwise the file is the response.  Other threads
\* may have run since the test.
send_result ==
    /\ driver = "_process_job" /\ response = "checked"
    /\ IF zip_file = "absent"
       THEN response' = "404" /\ served' = "none"
       ELSE response' = "200" /\ served' = zip_file
    /\ UNCHANGED <<pc, frame_idx, pipe_vars, io_vars, driver, yolo_reframe, fates, todo,
                   results, summary, outputs, batch_error, phase, canceled,
                   started_after_cancel, zip_vars, req_phase, job_view>>

\* process_dir 258-268: one file of one ratio; the call of reframe_video is
\* not guarded, its exception leaves process_dir and the script.
ProcessDirItem ==
    /\ pc = "batch" /\ driver = "process_dir" /\ todo # <<>>
    /\ LET item == Head(todo)
       IN  IF fates[item] = "ok"
           THEN /\ outputs' = outputs \cup {item}
                /\ todo' = Tail(todo)
                /\ pc' = pc /\ batch_error' = batch_error
           ELSE /\ batch_error' = "No se pudo abrir el video"
                /\ pc' = "batch_raised"
                /\ outputs' = outputs /\ todo' = todo
    /\ UNCHANGED <<frame_idx, pipe_vars, io_vars, driver, yolo_reframe, fates, results,
                   summary, phase, canceled, started_after_cancel, zip_vars, req_vars>>

\* Lines 270-277: the three calls of process_dir returned.
FinishScript ==
    /\ pc = "batch" /\ driver = "process_dir" /\ todo = <<>>
    /\ pc' = "batch_done"
    /\ UNCHANGED <<frame_idx, pipe_vars, io_vars, batch_vars>>

NextBatch ==
    \/ StartJob \/ Download \/ ProcessItem \/ StartZip \/ FinishJob
    \/ cancel_job \/ get_job \/ get_result \/ send_result
    \/ ProcessDirItem \/ FinishScript

SpecBatch == InitBatch /\ [][NextBatch]_vars

(***************************************************************************)
(* One frame of the subject locator on its own: the detector's candidate   *)
(* boxes in iteration order, the cadence test, the tracker.  The frame is  *)
(* any frame of a run, with no tracker or with one created on an earlier   *)
(* frame.                                                                  *)
(***************************************************************************)
InitLocate ==
    /\ pc = "locate"
    /\ IdleIO /\ IdleBatch
    /\ \E size \in FrameSizes : fw = size[1] /\ fh = size[2]
    /\ detect_every \in DetectEverys
    /\ frame_idx \in 0..(MaxFrames - 1)
    /\ tracker \in {None} \cup {<<k>> : k \in 1..frame_idx}
    /\ r_boxes = <<>> /\ capped_before = None
    /\ target_w = 0 /\ target_h = 0 /\ ema_alpha = I(0) /\ pan_cap_px = I(0)
    /\ override = <<None, None>> /\ manual_center = None /\ fixed_box = None
    /\ ema_v = None /\ prev_smooth_center = None
    /\ box = None /\ target_center = None /\ smooth_center = None
    /\ capped_center = None /\ crop = None
    /\ calls = {} /\ tracker_before = None
    /\ n_detect = 0 /\ n_init = 0 /\ n_update = 0
    /\ detect_frames = {} /\ steady = TRUE
    /\ ema_inputs = <<>> /\ ema_v_before = None

\* Lines 192-212 on one frame; r_boxes keeps the candidates the detector had.
LocateCall ==
    /\ pc = "locate"
    /\ pc' = "located"
    /\ frame_idx' = frame_idx + 1
    /\ tracker_before' = tracker
    /\ \E c \in CandidateLists(fw, fh), res \in TrackerResults(fw, fh) :
          LET loc == Locate(fixed_box, tracker, frame_idx + 1, detect_every,
                            detect_biggest_person(c), res)
          IN  /\ box' = loc[1]
              /\ tracker' = loc[2]
              /\ calls' = loc[3]
              /\ r_boxes' = IF "detect" \in loc[3] THEN c ELSE <<>>
    /\ UNCHANGED <<io_vars, batch_vars, capped_before, fw, fh, target_w, target_h,
                   detect_every, ema_alpha, pan_cap_px, override, manual_center,
                   fixed_box, ema_v, prev_smooth_center, target_center,
                   smooth_center, capped_center, crop, n_detect, n_init, n_update,
                   detect_frames, steady, ema_inputs, ema_v_before>>

SpecLocate == InitLocate /\ [][LocateCall]_vars

(***************************************************************************)
(* Claims about the crop geometry (SpecCrop).                              *)
(***************************************************************************)
TargetRatio == Rat(target_w, target_h)
\* | cw - ch * target_ratio | of the current crop window
RatioError == RAbs(RSub(I(crop[3]), RMul(I(crop[4]), TargetRatio)))

\* C1: for every frame size, target ratio and requested center, also a center
\* outside the frame, the crop window lies inside the frame:
\* 0 <= x0, x0 + cw <= frame_w, 0 <= y0, y0 + ch <= frame_h.
C1_CropInsideFrame ==
    crop # None =>
        /\ 0 <= crop[1] /\ crop[1] + crop[3] <= fw
        /\ 0 <= crop[2] /\ crop[2] + crop[4] <= fh

\* A center right of and above the frame: the window, narrower than the
\* frame, is held against the frame's right edge and keeps the full height.
C1_Witness ==
    /\ pc = "ret" /\ crop # None
    /\ RLt(I(fw), capped_center[1]) /\ RLt(capped_center[2], I(0))
    /\ 1 <= crop[3] /\ crop[3] < fw /\ crop[1] = fw - crop[3]
    /\ crop[4] = fh /\ crop[2] = 0

\* C2 as stated: | cw - ch * target_ratio | <= 1 for every frame and ratio.
C2_RatioWithinOnePixel == crop # None => RLe(RatioError, I(1))

\* C2 amended: | cw - ch * target_ratio | <= max(1, target_ratio / 2); the
\* dimension that is rounded is within half a pixel of its exact value.
C2_RatioWithinRounding ==
    crop # None =>
        /\ RLe(RatioError, RMax(I(1), RDiv(TargetRatio, I(2))))
        /\ IF RLt(TargetRatio, Rat(fw, fh))
           THEN RLe(RatioError, Rat(1, 2))
           ELSE RLe(RAbs(RSub(I(crop[4]), RDiv(I(crop[3]), TargetRatio))), Rat(1, 2))

\* A ratio above 2 on a frame that is not wider than it: the height is
\* rounded, and the width is off the ratio by more than a pixel.
C2_Witness ==
    /\ pc = "ret" /\ crop # None
    /\ RLt(I(2), TargetRatio)
    /\ crop[3] = fw /\ crop[4] >= 1
    /\ RLt(I(1), RatioError)

(***************************************************************************)
(* Claims about the pan-rate limiter (SpecPan).                            *)
(***************************************************************************)
DistSq(p, q) ==
    LET dx == RSub(q[1], p[1])
        dy == RSub(q[2], p[2])
    IN  RAdd(RMul(dx, dx), RMul(dy, dy))
Sq(a) == RMul(a, a)
\* distance(p, q) <= d, without a square root
WithinDist(p, q, d) == RLe(I(0), d) /\ RLe(DistSq(p, q), Sq(d))

\* C7: _apply_pan_cap returns target unchanged whenever prev is absent, or
\* max_px <= 0, or the distance from prev to target is <= max_px.
C7_PanCapPassesThrough ==
    (/\ pc = "ret" /\ capped_center # None
     /\ \/ prev_smooth_center = None
        \/ RLe(pan_cap_px, I(0))
        \/ WithinDist(prev_smooth_center, smooth_center, pan_cap_px))
    => capped_center = smooth_center

\* The cap is 0 (disabled) and the target is away from prev.
C7_Witness ==
    /\ pc = "ret" /\ capped_center # None
    /\ prev_smooth_center # None
    /\ pan_cap_px = I(0)
    /\ smooth_center # prev_smooth_center
    /\ capped_center = smooth_center

\* max_px > 0 and the target is further than max_px from prev
PanCapped ==
    /\ pc = "ret" /\ capped_center # None
    /\ prev_smooth_center # None
    /\ RLt(I(0), pan_cap_px)
    /\ ~WithinDist(prev_smooth_center, smooth_center, pan_cap_px)

\* C8: for max_px > 0 and distance(prev, target) > max_px the output is the
\* point of the segment from prev to target at distance exactly max_px from
\* prev; distance(output, target) = distance(prev, target) - max_px, which is
\* strictly less than distance(prev, target).
C8_PanCapRescales ==
    PanCapped =>
        LET p == prev_smooth_center
            t == smooth_center
            o == capped_center
            ox == RSub(o[1], p[1])
            oy == RSub(o[2], p[2])
            tx == RSub(t[1], p[1])
            ty == RSub(t[2], p[2])
        IN  /\ DistSq(p, o) = Sq(pan_cap_px)
            \* on the line through prev and target, on target's side, not beyond it
            /\ RMul(ox, ty) = RMul(oy, tx)
            /\ RLt(I(0), RAdd(RMul(ox, tx), RMul(oy, ty)))
            /\ RLe(DistSq(p, o), DistSq(p, t))
            /\ Hypot(RSub(t[1], o[1]), RSub(t[2], o[2])) = RSub(Hypot(tx, ty), pan_cap_px)
            /\ RLt(DistSq(o, t), DistSq(p, t))

\* A capped move that changes both coordinates.
C8_Witness ==
    /\ PanCapped
    /\ capped_center[1] # prev_smooth_center[1]
    /\ capped_center[2] # prev_smooth_center[2]
    /\ capped_center # smooth_center

(***************************************************************************)
(* Claims about the smoother (SpecEma).                                    *)
(***************************************************************************)
RECURSIVE RPow(_, _)
RPow(a, n) == IF n = 0 THEN I(1) ELSE RMul(a, RPow(a, n - 1))

\* The weight of input i of n in the smoothed value.
EmaWeight(alpha, i, n) ==
    IF i = 1 THEN RPow(RSub(I(1), alpha), n - 1)
    ELSE RMul(alpha, RPow(RSub(I(1), alpha), n - i))

RECURSIVE EmaSum(_, _, _, _)
EmaSum(alpha, xs, k, i) ==
    IF i > Len(xs) THEN I(0)
    ELSE RAdd(RMul(EmaWeight(alpha, i, Len(xs)), xs[i][k]), EmaSum(alpha, xs, k, i + 1))

\* C9: the first Ema.update returns its input unchanged and stores it; a later
\* one replaces v by alpha * x + (1 - alpha) * v and returns the new v; so the
\* output is the weighted sum of all inputs, in order:
\* (1-alpha)^(n-1) x1 + sum of alpha (1-alpha)^(n-i) xi.
C9_EmaRecurrence ==
    (pc = "ema" /\ ema_inputs # <<>>) =>
        LET n == Len(ema_inputs)
            x == ema_inputs[n]
            keep == RSub(I(1), ema_alpha)
        IN  /\ smooth_center = ema_v
            /\ n = 1 => ema_v = x
            /\ n > 1 => ema_v = <<RAdd(RMul(ema_alpha, x[1]), RMul(keep, ema_v_before[1])),
                                  RAdd(RMul(ema_alpha, x[2]), RMul(keep, ema_v_before[2]))>>
            /\ ema_v = <<EmaSum(ema_alpha, ema_inputs, 1, 1),
                         EmaSum(ema_alpha, ema_inputs, 2, 1)>>

\* Three different inputs with alpha < 1: the output is none of them.
C9_Witness ==
    /\ pc = "ema" /\ Len(ema_inputs) = 3
    /\ RLt(ema_alpha, I(1))
    /\ ema_inputs[1] # ema_inputs[2] /\ ema_inputs[2] # ema_inputs[3]
    /\ ema_inputs[1] # ema_inputs[3]
    /\ \A i \in 1..3 : ema_v # ema_inputs[i]

AllEqual(xs) == \A i \in 1..Len(xs) : xs[i] = xs[1]

\* Feeding the same point again never moves the value away from it, and the
\* value is that point while it is all that was fed.
EmaSamePoint ==
    (pc = "ema" /\ ema_inputs # <<>>) =>
        LET n == Len(ema_inputs)
        IN  /\ AllEqual(ema_inputs) => smooth_center = ema_inputs[1]
            /\ (n > 1 /\ ema_inputs[n] = ema_inputs[n - 1]) =>
                  RLe(DistSq(ema_v, ema_inputs[n]), DistSq(ema_v_before, ema_inputs[n]))

\* the inputs so far are [p, p, q] with q # p
FedPPQ ==
    /\ pc = "ema" /\ Len(ema_inputs) = 3
    /\ ema_inputs[1] = ema_inputs[2]
    /\ ema_inputs[3] # ema_inputs[1]

\* C10 as stated: for every alpha in (0, 1], the same point fed repeatedly
\* never moves the value away from it, and after [p, p] an update with a
\* different q returns a value different from q.
C10_EmaNeverJumps ==
    /\ EmaSamePoint
    /\ FedPPQ => smooth_center # ema_inputs[3]

\* C10 amended: the same for the repeated point; after [p, p] an update with
\* a different q returns a value different from q when alpha < 1, and q
\* itself when alpha = 1.
C10_EmaNeverJumpsBelowOne ==
    /\ EmaSamePoint
    /\ FedPPQ => (smooth_center # ema_inputs[3] <=> RLt(ema_alpha, I(1)))

\* [p, p, q] fed with alpha < 1: the output is strictly between p and q.
C10_Witness ==
    /\ FedPPQ
    /\ RLt(ema_alpha, I(1))
    /\ smooth_center # ema_inputs[3]
    /\ smooth_center # ema_inputs[1]

(***************************************************************************)
(* Claims about the locator of reframe_video (Spec).                       *)
(***************************************************************************)
NoCalls == n_detect = 0 /\ n_init = 0 /\ n_update = 0

\* C3: with an override of a fixed center only (no box), neither the
\* detector nor the tracker is invoked on any frame, and the raw center of
\* every frame is the override center in pixels.
C3_CenterOverrideBypasses ==
    (override[1] # None /\ override[2] = None /\ frame_idx >= 1) =>
        /\ NoCalls
        /\ target_center = <<RMul(override[1][1], I(fw)), RMul(override[1][2], I(fh))>>

\* C4: with an override of a fixed box, over the whole video the detector is
\* invoked 0 times, the tracker initialised 0 times and updated 0 times, and
\* the box of every frame is the override box scaled by the frame size.
C4_BoxOverrideBypasses ==
    (override[2] # None /\ pc \in {"loop", "done"}) =>
        /\ NoCalls
        /\ tracker = None
        /\ frame_idx >= 1 =>
              box = <<RMul(override[2][1], I(fw)), RMul(override[2][2], I(fh)),
                      RMul(override[2][3], I(fw)), RMul(override[2][4], I(fh))>>

\* A whole video of MaxFrames frames under a fixed box.
C4_Witness ==
    /\ override[2] # None /\ pc = "done" /\ frame_idx = MaxFrames
    /\ box = fixed_box /\ NoCalls

\* C5: with no override, the detector is invoked on a frame if and only if
\* no tracker is active when the frame starts or frame_index mod
\* detect_every = 1; frame 1 is always a detection frame.
C5_DetectionDue ==
    (override = <<None, None>> /\ frame_idx >= 1) =>
        /\ "detect" \in calls <=>
              (tracker_before = None \/ frame_idx % detect_every = 1)
        /\ 1 \in detect_frames

\* Both ways: a detection by cadence alone while a tracker is active, on a
\* later frame of a run that skipped detection on a frame before it.
C5_Witness ==
    /\ override = <<None, None>> /\ frame_idx >= 3
    /\ tracker_before # None /\ frame_idx % detect_every = 1
    /\ "detect" \in calls
    /\ (frame_idx - 1) \notin detect_frames

\* C6: with detect_every = D >= 1, no override and a tracker that stays
\* active (every detection finds a box, every update succeeds), the
\* detector is invoked exactly on frames 1, D+1, 2D+1, ...
C6_DetectionCadence ==
    (override = <<None, None>> /\ steady) =>
        detect_frames = {i \in 1..frame_idx : (i - 1) % detect_every = 0}

(***************************************************************************)
(* Claims about whole runs of reframe_video (Spec).                        *)
(***************************************************************************)
FrameCenter == <<Rat(fw, 2), Rat(fh, 2)>>
\* the crop window has the frame's center, to the pixel
CropCentered ==
    /\ Abs(2 * crop[1] + crop[3] - fw) <= 1
    /\ Abs(2 * crop[2] + crop[4] - fh) <= 1

\* C11: with no override and a detector that finds no box on any frame (no
\* tracker is ever created), for any detect_every, ema_alpha and pan_cap_px
\* the raw, smoothed and capped centers of every frame are the frame's
\* center, and every crop window is centered on the frame.
C11_NoDetectionStaysCentered ==
    (override = <<None, None>> /\ n_init = 0 /\ frame_idx >= 1) =>
        /\ target_center = FrameCenter
        /\ smooth_center = FrameCenter
        /\ capped_center = FrameCenter
        /\ CropCentered

\* A whole run in which the detector ran on every frame and never found a box,
\* with the pan cap on.
C11_Witness ==
    /\ override = <<None, None>> /\ pc = "done" /\ frame_idx = MaxFrames
    /\ n_init = 0 /\ n_detect = MaxFrames /\ n_update = 0
    /\ RLt(I(0), pan_cap_px)
    /\ capped_center = FrameCenter
    /\ crop[3] < fw

\* every detector call so far returned a box, centered on the frame
DetectorAlwaysCentered ==
    /\ n_init = n_detect
    /\ \A i \in detect_frames : ema_inputs[i] = FrameCenter

\* C12: with no override, detect_every = 1 and a detector that returns on
\* every call one box centered on the frame, the crop center of every output
\* frame is the frame's center, whatever the tracker reports.
C12_CenteredDetectionNoDrift ==
    (/\ override = <<None, None>> /\ detect_every = 1 /\ frame_idx >= 1
     /\ DetectorAlwaysCentered) =>
        /\ capped_center = FrameCenter
        /\ CropCentered

\* C13: with pan_cap_px = 0 the capped center of every frame is the smoothed
\* center Ema.update returned for that frame.
C13_ZeroCapDisables ==
    (pan_cap_px = I(0) /\ frame_idx >= 1) => capped_center = smooth_center

\* A later frame on which the smoothed center moved, with the cap at 0.
C13_Witness ==
    /\ pan_cap_px = I(0) /\ frame_idx >= 2
    /\ smooth_center # ema_v_before
    /\ capped_center = smooth_center

(***************************************************************************)
(* Claims about the files of one run (SpecFiles).                          *)
(***************************************************************************)
Ended == pc \in {"done", "raised"}

\* C14: when the source cannot be opened reframe_video raises before any
\* frame is read, after a single attempt, and leaves nothing behind: no
\* temporary file, and the destination path holds what it held before.
C14_UnreadableSourceLeavesNothing ==
    outcome = "RuntimeError" =>
        /\ pc = "raised" /\ n_opens = 1 /\ frame_idx = 0
        /\ sink = "none"
        /\ files["tmp"] = None /\ files["aac"] = None
        /\ files["dst"] = dst_before

\* The source did not open while a file was at the destination path.
C14_Witness ==
    /\ outcome = "RuntimeError" /\ pc = "raised"
    /\ dst_before = OldFile /\ files["dst"] = OldFile

\* C15: at no point of a run, with or without an audio track, does the
\* destination path hold a partially written file: output goes to the
\* temporary path and the destination is only produced by renaming a
\* completed file.
C15_DestinationNeverPartial == FileState(files["dst"]) # "partial"

\* C16: when the encode sink could not be opened or did not take a frame, the
\* run does not succeed and the destination path is not created or replaced.
C16_RejectedFrameAborts ==
    (sink = "failed" \/ n_rejected > 0) =>
        /\ outcome # "ok"
        /\ files["dst"] \in {None, dst_before}

\* C17: when the detector cannot be constructed the run raises before any
\* frame is read, never goes on without a detector, and produces no output
\* at the destination.
C17_DetectorUnavailableIsFatal ==
    detector = "failed" =>
        /\ pc = "raised" /\ outcome = "DetectorError"
        /\ frame_idx = 0 /\ n_written = 0
        /\ files["dst"] = dst_before

\* The detector failed after the writer had opened, a file being at the
\* destination path.
C17_Witness ==
    /\ detector = "failed" /\ sink = "open"
    /\ dst_before = OldFile /\ pc = "raised"

\* C18: when the source has an audio track and the extraction or the muxing
\* fails, _remux_audio does not raise, the silent video becomes the file at
\* the destination path and the run succeeds.
C18_RemuxFailureFallsBack ==
    (audio /\ (extract = "failed" \/ mux = "failed") /\ Ended) =>
        /\ outcome = "ok"
        /\ silent # None
        /\ files["dst"] = silent

BatchEnded == pc \in {"batch_done", "batch_raised"}
\* the item's failure reached the user with a reason: as an item of the job's
\* results, or as the exception that left the script
Reported(item) ==
    \/ \E i \in DOMAIN results :
          results[i][1] = item /\ results[i][2] = "error" /\ results[i][3] # ""
    \/ driver = "process_dir" /\ batch_error # "" /\ todo # <<>> /\ Head(todo) = item

\* C20: in a batch, under _process_job and under process_dir alike, an item
\* that fails is reported with a reason and every other item is still
\* processed, with the result it has when nothing fails.
C20_FailureIsIsolated ==
    BatchEnded =>
        \A item \in Items :
            IF yolo_reframe /\ fates[item] = "ok"
            THEN item \in outputs
            ELSE Reported(item)

(***************************************************************************)
(* More claims about _compute_crop_window (SpecCrop).                      *)
(***************************************************************************)
\* C22: the cover policy.  If frame_w / frame_h > target_ratio then
\* ch = frame_h and cw = round(frame_h * target_ratio), otherwise cw = frame_w
\* and ch = round(frame_w / target_ratio); either way cw <= frame_w and
\* ch <= frame_h.
C22_CoverPolicy ==
    crop # None =>
        /\ IF RLt(TargetRatio, Rat(fw, fh))
           THEN crop[4] = fh /\ crop[3] = PyRound(RMul(I(fh), TargetRatio))
           ELSE crop[3] = fw /\ crop[4] = PyRound(RDiv(I(fw), TargetRatio))
        /\ crop[3] <= fw /\ crop[4] <= fh

\* A frame wider than the target: full height, a narrower width.
C22_Witness ==
    /\ pc = "ret" /\ crop # None
    /\ RLt(TargetRatio, Rat(fw, fh))
    /\ crop[4] = fh /\ 1 <= crop[3] /\ crop[3] < fw

\* the requested coordinate c leaves room for half the window on both sides
InBand(c, size, frame) ==
    /\ RLe(Rat(size, 2), c)
    /\ RLe(c, RSub(I(frame), Rat(size, 2)))
\* the window's center on one axis is within one pixel of c
NearCenter(origin, size, c) == RLe(RAbs(RSub(RAdd(I(origin), Rat(size, 2)), c)), I(1))

\* C23: x0 = clamp(round(cx - cw/2), 0, frame_w - cw) and the same for y0;
\* a center with room for half the window on both sides is matched within
\* one pixel, a center beyond an edge gives the window flush with that edge.
C23_CenteredThenClamped ==
    crop # None =>
        LET cx == capped_center[1]
            cy == capped_center[2]
        IN  /\ crop[1] = clamp(PyRound(RSub(cx, Rat(crop[3], 2))), 0, fw - crop[3])
            /\ crop[2] = clamp(PyRound(RSub(cy, Rat(crop[4], 2))), 0, fh - crop[4])
            /\ InBand(cx, crop[3], fw) => NearCenter(crop[1], crop[3], cx)
            /\ InBand(cy, crop[4], fh) => NearCenter(crop[2], crop[4], cy)
            /\ RLt(cx, I(0)) => crop[1] = 0
            /\ RLt(I(fw), cx) => crop[1] = fw - crop[3]
            /\ RLt(cy, I(0)) => crop[2] = 0
            /\ RLt(I(fh), cy) => crop[2] = fh - crop[4]

\* A center with room on both sides that the rounding cannot match exactly,
\* in a window narrower than the frame and away from both edges.
C23_Witness ==
    /\ pc = "ret" /\ crop # None
    /\ crop[3] < fw /\ 0 < crop[1] /\ crop[1] < fw - crop[3]
    /\ InBand(capped_center[1], crop[3], fw)
    /\ RAdd(I(crop[1]), Rat(crop[3], 2)) # capped_center[1]
    /\ NearCenter(crop[1], crop[3], capped_center[1])

(***************************************************************************)
(* Claims about a job and its cancellation (SpecBatch).                    *)
(***************************************************************************)
\* C21: once cancel_job was accepted while the worker runs, the worker starts
\* no (video, ratio) beyond the one in progress and the phase stays
\* "canceled".
C21_CancelStopsWorker ==
    canceled =>
        /\ phase = "canceled"
        /\ started_after_cancel <= 1

(***************************************************************************)
(* Claims about one frame of the locator (SpecLocate).                     *)
(***************************************************************************)
\* C24: on a frame where the detector is invoked and has one or more
\* candidates, the frame's box is the candidate of largest area, the first of
\* them in iteration order; a fresh tracker is initialised on this frame in
\* place of any previous one, and the tracker is not updated on this frame.
C24_BiggestFirstCandidate ==
    ("detect" \in calls /\ r_boxes # <<>>) =>
        /\ \E i \in 1..Len(r_boxes) :
              /\ box = r_boxes[i]
              /\ \A j \in 1..Len(r_boxes) : RLe(Area(r_boxes[j]), Area(box))
              /\ \A j \in 1..(i - 1) : RLt(Area(r_boxes[j]), Area(box))
        /\ calls = {"detect", "init"}
        /\ tracker = <<frame_idx>>
        /\ tracker # tracker_before

\* Two different candidates of the same area on a due frame, a tracker being
\* active: the first one is taken and the tracker is replaced.
C24_Witness ==
    /\ pc = "located"
    /\ Len(r_boxes) = 2 /\ r_boxes[1] # r_boxes[2]
    /\ Area(r_boxes[1]) = Area(r_boxes[2])
    /\ box = r_boxes[1]
    /\ tracker_before # None /\ tracker = <<frame_idx>>

(***************************************************************************)
(* Claims about the locator over a run (Spec).                             *)
(***************************************************************************)
BoxCenter(b) == <<RAdd(b[1], RDiv(b[3], I(2))), RAdd(b[2], RDiv(b[4], I(2)))>>
OnCadence == frame_idx % Max2(1, detect_every) = 1

\* C25: on a frame where the detector is invoked and returns nothing while a
\* tracker is active, the tracker is updated on that same frame; when the
\* update succeeds its box is the frame's box and the tracker stays.
C25_EmptyDetectionFallsThrough ==
    ("detect" \in calls /\ "init" \notin calls /\ tracker_before # None) =>
        /\ "update" \in calls
        /\ box # None => /\ tracker = tracker_before
                         /\ target_center = BoxCenter(box)

\* A due frame with a tracker, an empty detection and a successful update
\* away from the frame's center.
C25_Witness ==
    /\ detect_every = 2 /\ frame_idx = 3
    /\ calls = {"detect", "update"}
    /\ box # None /\ tracker = tracker_before /\ tracker # None
    /\ target_center = BoxCenter(box) /\ target_center # FrameCenter

\* C26: on a frame where the tracker's update fails the tracker is dropped,
\* the frame has no box and, with no override center, its raw center is the
\* frame's center; the frame is processed like any other.
C26_TrackerFailureGlidesToCenter ==
    ("update" \in calls /\ box = None) =>
        /\ tracker = None /\ tracker_before # None
        /\ manual_center = None => target_center = FrameCenter
        /\ Len(ema_inputs) = frame_idx /\ crop # None
        /\ pc \in {"loop", "done"}

\* The tracker fails on the frame after one whose box was off center.
C26_Witness ==
    /\ "update" \in calls /\ box = None /\ manual_center = None
    /\ frame_idx >= 2 /\ ema_inputs[frame_idx - 1] # FrameCenter
    /\ target_center = FrameCenter /\ tracker = None

\* C27: on every frame that starts without a tracker, so on every frame after
\* a tracker loss, the detector is invoked whatever the cadence, and the
\* first detection that returns a box initialises a tracker on that frame.
C27_RecoveryAfterLoss ==
    (frame_idx >= 1 /\ fixed_box = None /\ tracker_before = None) =>
        /\ "detect" \in calls
        /\ "update" \notin calls
        /\ IF box # None
           THEN "init" \in calls /\ tracker = <<frame_idx>>
           ELSE tracker = None

\* The tracker was lost on an earlier frame; on a frame off the cadence the
\* detector runs and finds a box.
C27_Witness ==
    /\ detect_every = 3 /\ frame_idx = 3 /\ ~OnCadence
    /\ n_update >= 1 /\ tracker_before = None
    /\ calls = {"detect", "init"} /\ tracker = <<frame_idx>>

(***************************************************************************)
(* Claims about the frames of a run.                                       *)
(***************************************************************************)
\* C28: one crop window and one written frame per frame read; when the source
\* is exhausted the frames written are as many as the frames read.
C28_OneFrameWrittenPerFrameRead == n_written = frame_idx

\* C29: on frame 1 the capped center is the smoothed center, which is the raw
\* center; on every later frame the capped center is _apply_pan_cap of the
\* previous frame's capped center and this frame's smoothed center; the crop
\* window is computed from this frame's capped center.
C29_CausalChain ==
    frame_idx >= 1 =>
        /\ frame_idx = 1 => (capped_center = smooth_center /\ smooth_center = target_center)
        /\ frame_idx > 1 =>
              capped_center = apply_pan_cap(capped_before, smooth_center, pan_cap_px)
        /\ crop = compute_crop_window(fw, fh, Rat(target_w, target_h), capped_center)

\* A later frame on which the cap is active and the capped center is neither
\* the smoothed one, nor what the raw center or the previous smoothed center
\* would have given.
C29_Witness ==
    /\ frame_idx >= 3 /\ RLt(I(0), pan_cap_px)
    /\ capped_center # smooth_center
    /\ ema_v_before # capped_before
    /\ capped_center # apply_pan_cap(ema_v_before, smooth_center, pan_cap_px)
    /\ capped_center = apply_pan_cap(capped_before, smooth_center, pan_cap_px)

\* the crop window of the frame before the last one
CropBefore == compute_crop_window(fw, fh, Rat(target_w, target_h), capped_before)
\* the displacement of the crop origin over the last frame, squared
MoveSq(a, b) == RAdd(Sq(I(a[1] - b[1])), Sq(I(a[2] - b[2])))
OriginMoveSq == MoveSq(crop, CropBefore)

\* C30: with pan_cap_px > 0 the crop origin (x0, y0) moves by at most
\* pan_cap_px, in Euclidean distance, between two consecutive frames.
C30_OriginPanWithinCap ==
    (RLt(I(0), pan_cap_px) /\ frame_idx >= 2) => RLe(OriginMoveSq, Sq(pan_cap_px))

\* C30 amended: the capped center moves by at most pan_cap_px between two
\* consecutive frames, and the crop origin, which is that center rounded to
\* whole pixels, by at most pan_cap_px + 1.
C30_OriginPanWithinCapPlusOne ==
    (RLt(I(0), pan_cap_px) /\ frame_idx >= 2) =>
        /\ RLe(DistSq(capped_before, capped_center), Sq(pan_cap_px))
        /\ RLe(OriginMoveSq, Sq(RAdd(pan_cap_px, I(1))))

\* The smoothed center is further than the cap; the capped center moved by
\* the cap and the crop origin by more, across a rounding boundary.
C30_Witness ==
    /\ RLt(I(0), pan_cap_px) /\ frame_idx >= 2
    /\ capped_center # smooth_center
    /\ DistSq(capped_before, capped_center) = Sq(pan_cap_px)
    /\ RLt(Sq(pan_cap_px), OriginMoveSq)

\* C31: for frame_w > 0, frame_h > 0 and target_ratio > 0 the crop window of
\* _compute_crop_window is not empty: cw >= 1 and ch >= 1.
C31_CropNonEmpty ==
    pc = "ret" => (crop[3] >= 1 /\ crop[4] >= 1)

C33_ResultOnlyWhenDone ==
    /\ response = "200" =>
          (req_phase = "done" /\ zip_path # None /\ served = "complete")
    /\ zip_path # None => zip_file = "complete"
    /\ req_phase \notin {"none", "done"} => (response = "409" /\ served = "none")
    /\ served # "none" => response = "200"

\* The job was canceled while the worker ran, the worker went on to the
\* phase "done", get_result found it so, and a second cancel_job came
\* between its test and its response: the complete archive is served.
C33_Witness ==
    /\ response = "200" /\ served = "complete" /\ req_phase = "done"
    /\ canceled /\ phase = "canceled" /\ started_after_cancel > 0

====
